---- MODULE Spec2Model ----
(***************************************************************************)
(* PKDTech/payment-server: the order lifecycle (routes/orders.js,          *)
(* routes/payments.js), the distributed lock manager (utils/lock.js) and   *)
(* the wallet credit (firebase.js), as one state machine.                  *)
(*                                                                         *)
(* The store (Firebase Realtime Database) is modelled by the variables     *)
(* order, wallet and lock; every action is one store round trip of one     *)
(* request handler (the code between two awaits runs without interleaving  *)
(* inside a Node process, and a store transaction is atomic).  Time is     *)
(* counted in abstract ticks; the program's durations are scaled to ticks  *)
(* keeping their order (retry delay < order lock timeout < verification    *)
(* lock timeout < order expiry).  The model follows one order, created at  *)
(* time 0, and several concurrent requests on it.                          *)
(***************************************************************************)
EXTENDS Integers, FiniteSets, Sequences, TLC

\* ------------------------------------------------------------- bounds
\* concurrent requests of the main specification
NumReqs == 2
\* server processes (each with its own lockCache)
NumProcs == 2
\* the clock stops here
MaxTime == 5
\* store calls that may throw in one behaviour of the main specification
MaxFaults == 1
\* store calls that may throw in one behaviour of the verify specification
MaxVerifyFaults == 2
\* the amounts a request may name
MaxAmount == 2
\* calls of withIdempotency with one key
NumCalls == 3

\* ticks the clock may advance between two successive readings of Date.now()
MaxClockGap == 2

\* ------------------------------------------------ program constants
\* lock.js:12
MAX_LOCK_ATTEMPTS == 3
\* lock.js:13 (1000 ms), in ticks
LOCK_RETRY_DELAY == 1
\* config ORDER_LOCK_TIMEOUT (30000 ms), in ticks
ORDER_LOCK_TIMEOUT == 2
\* config PAYMENT_VERIFICATION_TIMEOUT (45000 ms), in ticks
PAYMENT_VERIFICATION_TIMEOUT == 3
\* config ORDER_EXPIRY_MINUTES * 60 * 1000 (300000 ms), in ticks
ORDER_EXPIRY == 4
\* withIdempotency's TTL, 5 * 60 * 1000 ms (the order expiry time), in ticks
IDEMPOTENCY_TTL == 4

\* config WALLET_MAX_BALANCE (50000, five times MAX_AMOUNT), in units of
\* the order's amount
WALLET_MAX_BALANCE == 3

\* config MIN_AMOUNT (10) and MAX_AMOUNT (10000), in units of the order's
\* amount
MIN_AMOUNT == 1
MAX_AMOUNT == 2

Reqs == 1..NumReqs
\* One more request slot, used by the specification of three requests.
AllReqs == 1..(NumReqs + 1)
Users == {"u1", "u2"}
Owner == "u1"
Amounts == 1..MaxAmount
Keys == {"order", "verify"}
Terminal == {"SUCCESS", "CANCELLED", "EXPIRED"}

Procs == 1..NumProcs
Calls == 1..NumCalls
\* The processes request r may run in.  Processes are interchangeable, so
\* the first request is placed in process 1.
ProcChoice(r) == IF r = 1 THEN {1} ELSE Procs

VARIABLES now, order, wallet, lock, cache, req, faults, credits, idem

vars == <<now, order, wallet, lock, cache, req, faults, credits, idem>>

\* ------------------------------------------------------- lock manager
\* No record under system/locks/<key> (snapshot.val() === null); also an
\* absent lockCache entry.
NoLock == [token |-> 0, expiresAt |-> 0]
\* releaseLock's default lockToken = null
NullToken == 0

\* No record under system/idempotency/<key>; also an absent
\* `idempotency:<key>` entry of lockCache.  The results of the operation are
\* numbered from 1.
NoRecord == [result |-> 0, expiresAt |-> 0]

\* AcquireUpdate without the expiry branch: a record is taken only when
\* there is none.
AcquireUpdateNoExpiry(currentLock, lockToken, lockExpiresAt, t) ==
  IF currentLock = NoLock
  THEN [token |-> lockToken, expiresAt |-> lockExpiresAt]
  ELSE currentLock

\* The update function of acquireLock's transaction.
AcquireUpdate(currentLock, lockToken, lockExpiresAt, t) ==
  IF currentLock = NoLock
  THEN [token |-> lockToken, expiresAt |-> lockExpiresAt]
  ELSE IF currentLock.expiresAt < t
       THEN [token |-> lockToken, expiresAt |-> lockExpiresAt]
       ELSE currentLock

\* The update function of releaseLock's transaction.
ReleaseUpdate(currentLock, lockToken) ==
  IF currentLock = NoLock
  THEN NoLock
  ELSE IF lockToken # NullToken /\ currentLock.token # lockToken
       THEN currentLock
       ELSE NoLock

\* releaseLock's handling of the in-process cache entry.
ReleaseCache(cachedLock, lockToken) ==
  IF cachedLock # NoLock /\ cachedLock.token = lockToken THEN NoLock ELSE cachedLock

\* The quick check of acquireLock and isLocked on the in-process cache.
CacheHeld(cachedLock, t) == cachedLock # NoLock /\ cachedLock.expiresAt > t

\* isLocked's test of the stored record.
StoreExpired(lockData, t) == lockData.expiresAt < t

\* checkExpiry with the expiry time taken one tick too late.
checkExpiryLate(createdAt, expiry, t) == t > createdAt + expiry + 1

\* utils/time checkExpiry
checkExpiry(createdAt, expiry, t) == t > createdAt + expiry

\* ------------------------------------------------------------- store
\* No record under payments/<orderId>: every field is blank.
NoOrder ==
  [status |-> "NONE", createdAt |-> 0, expiresAt |-> 0,
   userId |-> "none", amount |-> 0, transactionId |-> 0, transactionRef |-> 0,
   verificationError |-> FALSE, cancelledBy |-> "none", autoExpired |-> FALSE]

\* updatePaymentOrder as a `set` of the record: the fields that are not in
\* the update are gone.
updatePaymentOrderSet(o, status, updateData) ==
  [f \in DOMAIN o |->
     IF f = "status" THEN status
     ELSE IF f \in DOMAIN updateData THEN updateData[f]
     ELSE NoOrder[f]]

\* firebase.js updatePaymentOrder: a partial update of the order record.
updatePaymentOrder(o, status, updateData) ==
  [f \in DOMAIN o |->
     IF f = "status" THEN status
     ELSE IF f \in DOMAIN updateData THEN updateData[f]
     ELSE o[f]]

\* WalletUpdate that takes every wallet for a new one: the balance read is
\* not used.
WalletUpdateFromZero(currentWallet, amount) ==
  [currentWallet EXCEPT !.exists = TRUE, !.balance = amount]

\* The update function of updateWalletBalance's transaction.
WalletUpdate(currentWallet, amount) ==
  IF ~currentWallet.exists
  THEN [currentWallet EXCEPT !.exists = TRUE, !.balance = amount]
  ELSE [currentWallet EXCEPT !.balance = currentWallet.balance + amount]

\* The history entry updateWalletBalance sets under history/<orderId>:
\* its amount (hist) and its newBalance (histNew), the balance of the
\* transaction's snapshot.
HistorySet(currentWallet, amount, newBalance) ==
  [currentWallet EXCEPT !.exists = TRUE, !.hist = amount, !.histNew = newBalance]

\* ---------------------------------------------------------- requests
\* A request slot: the handler's kind, its place (pc), its process, the
\* request's fields, acquireLock's locals (lockExp is lockExpiresAt), the
\* status read from the order (snap), the response to send after the
\* release (ret) and the response sent (result).  got, released and
\* creditFailed record what happened: acquireLock returned a token, the
\* handler's release went through, updateWalletBalance threw.  createdAt and
\* expiresAt are the two clock readings of the orderData that order
\* creation builds; newBalance is the balance in the snapshot that the
\* wallet transaction returned.
Idle == [kind |-> "idle", pc |-> "idle", proc |-> 1, userId |-> Owner, amount |-> 0,
         upiOk |-> FALSE, lockExp |-> 0, attempt |-> 0, wakeAt |-> 0,
         snap |-> "none", got |-> FALSE, released |-> FALSE,
         creditFailed |-> FALSE, ret |-> "none", result |-> "none",
         createdAt |-> 0, expiresAt |-> 0, newBalance |-> 0]

\* A call of withLock is made on the `order:<id>` key with the default
\* timeout (DEFAULT_LOCK_TIMEOUT, 30000 ms as ORDER_LOCK_TIMEOUT).
KeyOf(q) == IF q.kind = "verify" THEN "verify" ELSE "order"
TimeoutOf(q) ==
  IF q.kind = "verify" THEN PAYMENT_VERIFICATION_TIMEOUT ELSE ORDER_LOCK_TIMEOUT

\* The response is sent: the handler's locals are gone.
Finish(q, result) ==
  [q EXCEPT !.pc = "done", !.result = result, !.ret = "none", !.amount = 0,
            !.upiOk = FALSE, !.userId = Owner, !.attempt = 0, !.wakeAt = 0,
            !.snap = "none", !.newBalance = 0]

\* A store call may throw while the fault budget (faults) lasts.
FaultChoice == IF faults > 0 THEN BOOLEAN ELSE {FALSE}
Charge(fail) == faults' = IF fail THEN faults - 1 ELSE faults

\* -------------------------------------------------------- acquireLock
\* withLock with the test of the token left out: the operation is run
\* whatever acquireLock returned.
AfterAcquireRunAnyway(c, outcome) ==
  IF outcome = "thrown" THEN Finish(c, "FAULT") ELSE [c EXCEPT !.pc = "w_op"]

\* lock.js 294-298: withLock throws when acquireLock returned no token (its
\* own throw propagates), and goes on to the operation otherwise.
AfterAcquireWithLock(c, outcome) ==
  IF outcome = "token" THEN [c EXCEPT !.pc = "w_op"]
  ELSE IF outcome = "refused" THEN Finish(c, "LOCK_ERROR")
  ELSE Finish(c, "FAULT")

\* What each handler does with acquireLock's outcome: "token" (acquired),
\* "refused" (false returned) or "thrown" (the store raised on the last attempt).
AfterAcquire(q, outcome) ==
  LET c == [q EXCEPT !.attempt = 0, !.wakeAt = 0,
                     !.lockExp = IF outcome = "token" THEN q.lockExp ELSE 0,
                     !.got = (outcome = "token")]
  IN CASE q.kind = "verify" ->
            \* payments.js 60-68; a throw reaches the catch with lockAcquired false
            IF outcome = "token" THEN [c EXCEPT !.pc = "v_read"]
            ELSE IF outcome = "refused" THEN Finish(c, "VERIFICATION_IN_PROGRESS")
            ELSE Finish(c, "SERVER_ERROR")
       [] q.kind = "cancel" ->
            \* orders.js 247-255
            IF outcome = "token" THEN [c EXCEPT !.pc = "c_read"]
            ELSE IF outcome = "refused" THEN Finish(c, "ORDER_BEING_PROCESSED")
            ELSE Finish(c, "SERVER_ERROR")
       [] q.kind = "get" ->
            \* orders.js 177-186: the returned value is not looked at
            IF outcome = "thrown" THEN Finish(c, "OK_PENDING")
            ELSE [c EXCEPT !.pc = "g_expire"]
       [] q.kind = "recheck" ->
            \* payments.js 300-336
            IF outcome = "token" THEN [c EXCEPT !.pc = "x_expire"]
            ELSE IF outcome = "refused" THEN Finish(c, "ORDER_EXPIRED")
            ELSE Finish(c, "OK_PENDING")
       [] q.kind = "withlock" -> AfterAcquireWithLock(c, outcome)
       [] OTHER ->
            \* sweep, orders.js 395-411
            IF outcome = "token" THEN [c EXCEPT !.pc = "x_expire"]
            ELSE Finish(c, "SWEPT")

\* acquireLock up to its first await: lockExpiresAt is computed once, then
\* the in-process cache is checked (lock.js 75-84).
acquireLock(q, t) ==
  IF CacheHeld(cache[q.proc][KeyOf(q)], t)
  THEN AfterAcquire(q, "refused")
  ELSE [q EXCEPT !.pc = "acq", !.lockExp = t + TimeoutOf(q),
                 !.attempt = 1, !.wakeAt = t]

\* AcquireAttempt without the attempt budget: a refused or failed pass is
\* always followed by a backoff and another pass.
AcquireAttemptNoBudget(r) ==
  /\ req[r].pc = "acq"
  /\ now >= req[r].wakeAt
  /\ \E fail \in FaultChoice :
       LET q == req[r]
           k == KeyOf(q)
           new == AcquireUpdate(lock[k], r, q.lockExp, now)
           retry == [q EXCEPT !.attempt = q.attempt + 1,
                              !.wakeAt = now + LOCK_RETRY_DELAY * q.attempt]
       IN /\ Charge(fail)
          /\ IF fail
             THEN /\ req' = [req EXCEPT ![r] = retry]
                  /\ UNCHANGED <<lock, cache>>
             ELSE /\ lock' = [lock EXCEPT ![k] = new]
                  /\ IF new.token = r
                     THEN /\ cache' = [cache EXCEPT ![q.proc][k] =
                                         [token |-> r, expiresAt |-> q.lockExp]]
                          /\ req' = [req EXCEPT ![r] = AfterAcquire(q, "token")]
                     ELSE /\ cache' = cache
                          /\ req' = [req EXCEPT ![r] = retry]
  /\ UNCHANGED <<now, order, wallet, credits, idem>>

\* AcquireAttempt that rethrows a store failure at once, on any pass.
AcquireAttemptThrowEarly(r) ==
  /\ req[r].pc = "acq"
  /\ now >= req[r].wakeAt
  /\ \E fail \in FaultChoice :
       LET q == req[r]
           k == KeyOf(q)
           new == AcquireUpdate(lock[k], r, q.lockExp, now)
           last == q.attempt >= MAX_LOCK_ATTEMPTS
           retry == [q EXCEPT !.attempt = q.attempt + 1,
                              !.wakeAt = now + LOCK_RETRY_DELAY * q.attempt]
       IN /\ Charge(fail)
          /\ IF fail
             THEN /\ req' = [req EXCEPT ![r] = AfterAcquire(q, "thrown")]
                  /\ UNCHANGED <<lock, cache>>
             ELSE /\ lock' = [lock EXCEPT ![k] = new]
                  /\ IF new.token = r
                     THEN /\ cache' = [cache EXCEPT ![q.proc][k] =
                                         [token |-> r, expiresAt |-> q.lockExp]]
                          /\ req' = [req EXCEPT ![r] = AfterAcquire(q, "token")]
                     ELSE /\ cache' = cache
                          /\ req' = [req EXCEPT ![r] =
                                      IF last THEN AfterAcquire(q, "refused") ELSE retry]
  /\ UNCHANGED <<now, order, wallet, credits, idem>>

\* One pass of acquireLock's retry loop: the transaction, then the return,
\* the backoff or the rethrow (lock.js 86-150).
AcquireAttempt(r) ==
  /\ req[r].pc = "acq"
  /\ now >= req[r].wakeAt
  /\ \E fail \in FaultChoice :
       LET q == req[r]
           k == KeyOf(q)
           new == AcquireUpdate(lock[k], r, q.lockExp, now)
           last == q.attempt >= MAX_LOCK_ATTEMPTS
           retry == [q EXCEPT !.attempt = q.attempt + 1,
                              !.wakeAt = now + LOCK_RETRY_DELAY * q.attempt]
       IN /\ Charge(fail)
          /\ IF fail
             THEN /\ req' = [req EXCEPT ![r] =
                              IF last THEN AfterAcquire(q, "thrown") ELSE retry]
                  /\ UNCHANGED <<lock, cache>>
             ELSE /\ lock' = [lock EXCEPT ![k] = new]
                  /\ IF new.token = r
                     THEN /\ cache' = [cache EXCEPT ![q.proc][k] =
                                         [token |-> r, expiresAt |-> q.lockExp]]
                          /\ req' = [req EXCEPT ![r] = AfterAcquire(q, "token")]
                     ELSE /\ cache' = cache
                          /\ req' = [req EXCEPT ![r] =
                                      IF last THEN AfterAcquire(q, "refused") ELSE retry]
  /\ UNCHANGED <<now, order, wallet, credits, idem>>

\* lock.js cleanupExpiredLocks, run by the process's interval timer: every
\* lockCache entry past its expiresAt is deleted, the entries of locks and
\* the `idempotency:<key>` entry alike.
cleanupExpiredLocks(p) ==
  /\ \/ \E k \in Keys : cache[p][k] # NoLock /\ cache[p][k].expiresAt < now
     \/ idem.cache[p] # NoRecord /\ idem.cache[p].expiresAt < now
  /\ cache' = [cache EXCEPT ![p] =
                 [k \in Keys |-> IF cache[p][k] # NoLock /\ cache[p][k].expiresAt < now
                                 THEN NoLock ELSE cache[p][k]]]
  /\ idem' = [idem EXCEPT !.cache[p] =
                 IF @ # NoRecord /\ @.expiresAt < now THEN NoRecord ELSE @]
  /\ UNCHANGED <<now, order, wallet, lock, req, faults, credits>>

\* ------------------------------------------- releaseLock in a handler
\* What follows a handler's `await releaseLock(lockKey)` (no token passed).
AfterRelease(q, fail) ==
  LET c == [q EXCEPT !.released = ~fail]
  IN CASE q.kind \in {"verify", "cancel"} ->
            \* a throw reaches the handler's catch, which releases once more
            IF fail THEN [c EXCEPT !.pc = "catch_release"] ELSE Finish(c, q.ret)
       [] q.kind = "recheck" ->
            \* payments.js 323: the catch answers "still pending"
            IF fail THEN Finish(c, "OK_PENDING") ELSE Finish(c, q.ret)
       [] OTHER -> Finish(c, "SWEPT")

\* `await releaseLock(lockKey)` on the handler's way out.
Release(r) ==
  /\ req[r].pc = "release"
  /\ \E fail \in FaultChoice :
       LET q == req[r]
           k == KeyOf(q)
       IN /\ Charge(fail)
          /\ lock' = IF fail THEN lock
                     ELSE [lock EXCEPT ![k] = ReleaseUpdate(lock[k], NullToken)]
          /\ cache' = [cache EXCEPT ![q.proc][k] =
                         ReleaseCache(cache[q.proc][k], NullToken)]
          /\ req' = [req EXCEPT ![r] = AfterRelease(q, fail)]
  /\ UNCHANGED <<now, order, wallet, credits, idem>>

\* The catch block of verify and cancel: release if lockAcquired, swallow a
\* second failure, then next(error) (payments.js 224-234, orders.js 322-332).
CatchRelease(r) ==
  /\ req[r].pc = "catch_release"
  /\ \E fail \in FaultChoice :
       LET q == req[r]
           k == KeyOf(q)
       IN /\ Charge(fail)
          /\ lock' = IF fail THEN lock
                     ELSE [lock EXCEPT ![k] = ReleaseUpdate(lock[k], NullToken)]
          /\ cache' = [cache EXCEPT ![q.proc][k] =
                         ReleaseCache(cache[q.proc][k], NullToken)]
          /\ req' = [req EXCEPT ![r] =
                       Finish([q EXCEPT !.released = ~fail], "SERVER_ERROR")]
  /\ UNCHANGED <<now, order, wallet, credits, idem>>

\* ------------------------------------------------------------ isLocked
\* What verify (payments.js 110-130) and the order read (orders.js 159-187)
\* do with the value of isLocked(`order:<id>`).
AfterIsLocked(q, locked, t) ==
  IF q.kind = "verify"
  THEN IF locked THEN [q EXCEPT !.pc = "release", !.ret = "ORDER_CANCELLED"]
       ELSE IF q.amount # order.amount
            THEN [q EXCEPT !.pc = "release", !.ret = "AMOUNT_MISMATCH"]
            ELSE [q EXCEPT !.pc = "v_upi"]
  ELSE IF locked THEN Finish(q, "ORDER_LOCKED")
       ELSE IF t >= order.expiresAt /\ q.snap = "PENDING"
            THEN acquireLock(q, t)
            ELSE Finish(q, "OK_" \o q.snap)

\* isLocked from its call to its first await: the cache check (lock.js 206-210).
isLocked(q, t) ==
  IF CacheHeld(cache[q.proc]["order"], t)
  THEN AfterIsLocked(q, TRUE, t)
  ELSE [q EXCEPT !.pc = "islocked"]

\* isLocked's read of the stored record (lock.js 213-236): a throw counts
\* as locked; an expired record is to be reaped by a release.
IsLockedRead(r) ==
  /\ req[r].pc = "islocked"
  /\ \E fail \in FaultChoice :
       LET q == req[r]
           lockData == lock["order"]
       IN /\ Charge(fail)
          /\ req' = [req EXCEPT ![r] =
                       IF fail THEN AfterIsLocked(q, TRUE, now)
                       ELSE IF lockData = NoLock THEN AfterIsLocked(q, FALSE, now)
                       ELSE IF StoreExpired(lockData, now) THEN [q EXCEPT !.pc = "reap"]
                       ELSE AfterIsLocked(q, TRUE, now)]
  /\ UNCHANGED <<now, order, wallet, lock, cache, credits, idem>>

\* isLocked's `await releaseLock(lockKey)` for the record it saw expired
\* (lock.js 225-228).
IsLockedReap(r) ==
  /\ req[r].pc = "reap"
  /\ \E fail \in FaultChoice :
       LET q == req[r]
       IN /\ Charge(fail)
          /\ lock' = IF fail THEN lock
                     ELSE [lock EXCEPT !["order"] = ReleaseUpdate(lock["order"], NullToken)]
          /\ cache' = [cache EXCEPT ![q.proc]["order"] =
                         ReleaseCache(cache[q.proc]["order"], NullToken)]
          /\ req' = [req EXCEPT ![r] = AfterIsLocked(q, fail, now)]
  /\ UNCHANGED <<now, order, wallet, credits, idem>>

\* ------------------------------------------- POST /api/payment/verify
\* payments.js 17-68: the request arrives in process p and calls acquireLock.
\* The fields of the request body (amount, upiId, userId) are drawn where the
\* handler first uses them: VerifyRead, VerifyUpi and VerifyCredit.
VerifyStart(r, p) ==
  /\ req[r].kind = "idle"
  /\ req' = [req EXCEPT ![r] =
               acquireLock([Idle EXCEPT !.kind = "verify", !.proc = p], now)]
  /\ UNCHANGED <<now, order, wallet, lock, cache, faults, credits, idem>>

\* VerifyRead without the status test of payments.js 82-90: the order's
\* status is not looked at before the expiry test.
VerifyReadAnyStatus(r, amount) ==
  /\ req[r].pc = "v_read"
  /\ \E fail \in FaultChoice :
       LET q == [req[r] EXCEPT !.amount = amount]
       IN /\ Charge(fail)
          /\ req' = [req EXCEPT ![r] =
                       IF fail THEN [q EXCEPT !.pc = "catch_release"]
                       ELSE IF checkExpiry(order.createdAt, ORDER_EXPIRY, now)
                            THEN [q EXCEPT !.pc = "v_expire"]
                       ELSE isLocked(q, now)]
  /\ UNCHANGED <<now, order, wallet, lock, cache, credits, idem>>

\* payments.js 71-117: getPaymentOrder, then the status and expiry checks
\* and the call of isLocked; amount is the request's amount, compared with
\* the order's once isLocked has answered.
VerifyRead(r, amount) ==
  /\ req[r].pc = "v_read"
  /\ \E fail \in FaultChoice :
       LET q == [req[r] EXCEPT !.amount = amount]
       IN /\ Charge(fail)
          /\ req' = [req EXCEPT ![r] =
                       IF fail THEN [q EXCEPT !.pc = "catch_release"]
                       ELSE IF order.status # "PENDING"
                            THEN [q EXCEPT !.pc = "release", !.ret = "ORDER_INVALID_STATUS"]
                       ELSE IF checkExpiry(order.createdAt, ORDER_EXPIRY, now)
                            THEN [q EXCEPT !.pc = "v_expire"]
                       ELSE isLocked(q, now)]
  /\ UNCHANGED <<now, order, wallet, lock, cache, credits, idem>>

\* payments.js 96-107: the order is auto-expired under the verify lock.
VerifyExpire(r) ==
  /\ req[r].pc = "v_expire"
  /\ \E fail \in FaultChoice :
       LET q == req[r]
       IN /\ Charge(fail)
          /\ order' = IF fail THEN order
                      ELSE updatePaymentOrder(order, "EXPIRED", [autoExpired |-> TRUE])
          /\ req' = [req EXCEPT ![r] =
                       IF fail THEN [q EXCEPT !.pc = "catch_release"]
                       ELSE [q EXCEPT !.pc = "release", !.ret = "ORDER_EXPIRED"]]
  /\ UNCHANGED <<now, wallet, lock, cache, credits, idem>>

\* payments.js 132-154: getUPIDetails and the comparison with the request's
\* upiId (upiOk: it is the configured one; kept in the request once it has
\* passed the comparison).
VerifyUpi(r, upiOk) ==
  /\ req[r].pc = "v_upi"
  /\ \E fail \in FaultChoice :
       LET q == req[r]
       IN /\ Charge(fail)
          /\ req' = [req EXCEPT ![r] =
                       IF fail THEN [q EXCEPT !.pc = "release", !.ret = "UPI_VERIFICATION_ERROR"]
                       ELSE IF ~upiOk THEN [q EXCEPT !.pc = "release", !.ret = "UPI_MISMATCH"]
                       ELSE [q EXCEPT !.pc = "v_mark", !.upiOk = TRUE]]
  /\ UNCHANGED <<now, order, wallet, lock, cache, credits, idem>>

\* The `transactionRef` of a verify request's body: absent (0), or a
\* reference other than the request's transactionId (which is r).
TransactionRefs(r) == {0, r + Cardinality(AllReqs)}

\* payments.js 170: `transactionRef || transactionId`.
OrElse(a, b) == IF a = 0 THEN b ELSE a

\* payments.js 166-174, step 9: the order is marked SUCCESS, with the
\* request's transactionId and transactionRef.
VerifyMark(r) ==
  /\ req[r].pc = "v_mark"
  /\ \E fail \in FaultChoice, transactionRef \in TransactionRefs(r) :
       LET q == req[r]
       IN /\ Charge(fail)
          /\ order' = IF fail THEN order
                      ELSE updatePaymentOrder(order, "SUCCESS",
                             [transactionId |-> r,
                              transactionRef |-> OrElse(transactionRef, r)])
          /\ req' = [req EXCEPT ![r] =
                       IF fail THEN [q EXCEPT !.pc = "catch_release"]
                       ELSE [q EXCEPT !.pc = "v_credit"]]
  /\ UNCHANGED <<now, wallet, lock, cache, credits, idem>>

\* payments.js 179, firebase.js 174-193: the wallet transaction of
\* updateWalletBalance, on the wallet of the request's userId.
VerifyCredit(r, userId) ==
  /\ req[r].pc = "v_credit"
  /\ \E fail \in FaultChoice :
       LET q == [req[r] EXCEPT !.userId = userId]
       IN /\ Charge(fail)
          /\ wallet' = IF fail THEN wallet
                       ELSE [wallet EXCEPT ![q.userId] = WalletUpdate(wallet[q.userId], q.amount)]
          /\ credits' = IF fail THEN credits ELSE credits + 1
          /\ req' = [req EXCEPT ![r] =
                       IF fail THEN [q EXCEPT !.pc = "v_rollback", !.creditFailed = TRUE]
                       ELSE [q EXCEPT !.pc = "v_hist",
                                      !.newBalance =
                                         WalletUpdate(wallet[q.userId], q.amount).balance]]
  /\ UNCHANGED <<now, order, lock, cache, idem>>

\* firebase.js 195-208: the history entry, written after the balance commit.
VerifyHistory(r) ==
  /\ req[r].pc = "v_hist"
  /\ \E fail \in FaultChoice :
       LET q == req[r]
       IN /\ Charge(fail)
          /\ wallet' = IF fail THEN wallet
                       ELSE [wallet EXCEPT ![q.userId] =
                               HistorySet(wallet[q.userId], q.amount, q.newBalance)]
          /\ req' = [req EXCEPT ![r] =
                       IF fail THEN [q EXCEPT !.pc = "v_rollback", !.creditFailed = TRUE]
                       ELSE [q EXCEPT !.pc = "release", !.ret = "SUCCESS"]]
  /\ UNCHANGED <<now, order, lock, cache, credits, idem>>

\* payments.js 185-199: the credit threw; the order is put back to PENDING.
VerifyRollback(r) ==
  /\ req[r].pc = "v_rollback"
  /\ \E fail \in FaultChoice :
       LET q == req[r]
       IN /\ Charge(fail)
          /\ order' = IF fail THEN order
                      ELSE updatePaymentOrder(order, "PENDING", [verificationError |-> TRUE])
          /\ req' = [req EXCEPT ![r] =
                       IF fail THEN [q EXCEPT !.pc = "catch_release"]
                       ELSE [q EXCEPT !.pc = "release", !.ret = "WALLET_CREDIT_ERROR"]]
  /\ UNCHANGED <<now, wallet, lock, cache, credits, idem>>

\* --------------------------------------------- POST /api/order/cancel
\* orders.js 230-255: the request arrives and calls acquireLock.
CancelStart(r, p, userId) ==
  /\ req[r].kind = "idle"
  /\ req' = [req EXCEPT ![r] =
               acquireLock([Idle EXCEPT !.kind = "cancel", !.proc = p, !.userId = userId], now)]
  /\ UNCHANGED <<now, order, wallet, lock, cache, faults, credits, idem>>

\* orders.js 258-299: getPaymentOrder, then the owner, status and expiry checks.
CancelRead(r) ==
  /\ req[r].pc = "c_read"
  /\ \E fail \in FaultChoice :
       LET q == req[r]
       IN /\ Charge(fail)
          /\ req' = [req EXCEPT ![r] =
                       IF fail THEN [q EXCEPT !.pc = "catch_release"]
                       ELSE IF order.userId # q.userId
                            THEN [q EXCEPT !.pc = "release", !.ret = "UNAUTHORIZED"]
                       ELSE IF order.status # "PENDING"
                            THEN [q EXCEPT !.pc = "release", !.ret = "ORDER_NOT_CANCELLABLE"]
                       ELSE IF checkExpiry(order.createdAt, ORDER_EXPIRY, now)
                            THEN [q EXCEPT !.pc = "release", !.ret = "ORDER_EXPIRED"]
                       ELSE [q EXCEPT !.pc = "c_write"]]
  /\ UNCHANGED <<now, order, wallet, lock, cache, credits, idem>>

\* orders.js 302-305: the order is marked CANCELLED.
CancelWrite(r) ==
  /\ req[r].pc = "c_write"
  /\ \E fail \in FaultChoice :
       LET q == req[r]
       IN /\ Charge(fail)
          /\ order' = IF fail THEN order
                      ELSE updatePaymentOrder(order, "CANCELLED", [cancelledBy |-> q.userId])
          /\ req' = [req EXCEPT ![r] =
                       IF fail THEN [q EXCEPT !.pc = "catch_release"]
                       ELSE [q EXCEPT !.pc = "release", !.ret = "CANCELLED"]]
  /\ UNCHANGED <<now, wallet, lock, cache, credits, idem>>

\* ----------------------------------------------- GET /api/order/:orderId
\* orders.js 135-166: getPaymentOrder, then the call of isLocked.
GetStart(r, p) ==
  /\ req[r].kind = "idle"
  /\ \E fail \in FaultChoice :
       LET q == [Idle EXCEPT !.kind = "get", !.proc = p]
       IN /\ Charge(fail)
          /\ req' = [req EXCEPT ![r] =
                       IF fail THEN Finish(q, "SERVER_ERROR")
                       ELSE isLocked([q EXCEPT !.snap = order.status], now)]
  /\ UNCHANGED <<now, order, wallet, lock, cache, credits, idem>>

\* orders.js 179-186: the lazy expiry write; a throw is logged and the
\* order is answered as read.
GetExpire(r) ==
  /\ req[r].pc = "g_expire"
  /\ \E fail \in FaultChoice :
       LET q == req[r]
       IN /\ Charge(fail)
          /\ order' = IF fail THEN order
                      ELSE updatePaymentOrder(order, "EXPIRED", [autoExpired |-> TRUE])
          /\ req' = [req EXCEPT ![r] =
                       Finish(q, IF fail THEN "OK_PENDING" ELSE "OK_EXPIRED")]
  /\ UNCHANGED <<now, wallet, lock, cache, credits, idem>>

\* ------------------- POST /api/payment/recheck and expirePendingOrders
\* payments.js 241-351: getPaymentOrder, the owner check and the switch on
\* the status read; an expired PENDING order leads to acquireLock.
RecheckStart(r, p, userId) ==
  /\ req[r].kind = "idle"
  /\ \E fail \in FaultChoice :
       LET q == [Idle EXCEPT !.kind = "recheck", !.proc = p, !.userId = userId]
       IN /\ Charge(fail)
          /\ req' = [req EXCEPT ![r] =
                       IF fail THEN Finish(q, "SERVER_ERROR")
                       ELSE IF order.userId # userId THEN Finish(q, "UNAUTHORIZED")
                       ELSE IF order.status = "PENDING"
                            THEN IF now - order.createdAt > ORDER_EXPIRY
                                 THEN acquireLock([q EXCEPT !.ret = "ORDER_EXPIRED"], now)
                                 ELSE Finish(q, "OK_PENDING")
                       ELSE IF order.status = "SUCCESS" THEN Finish(q, "OK_SUCCESS")
                       ELSE Finish(q, "ORDER_" \o order.status)]
  /\ UNCHANGED <<now, order, wallet, lock, cache, credits, idem>>

\* orders.js 369-399: the query for PENDING orders; an order older than
\* the expiry time leads to acquireLock.
SweepStart(r, p) ==
  /\ req[r].kind = "idle"
  /\ \E fail \in FaultChoice :
       LET q == [Idle EXCEPT !.kind = "sweep", !.proc = p]
       IN /\ Charge(fail)
          /\ req' = [req EXCEPT ![r] =
                       IF fail THEN Finish(q, "SERVER_ERROR")
                       ELSE IF order.status = "PENDING" /\ now - order.createdAt > ORDER_EXPIRY
                            THEN acquireLock(q, now)
                            ELSE Finish(q, "SWEPT")]
  /\ UNCHANGED <<now, order, wallet, lock, cache, credits, idem>>

\* payments.js 305-308 and orders.js 401-404: the EXPIRED write under the
\* order lock; a throw is caught (recheck answers "still pending", the
\* sweep goes on).
ExpireWrite(r) ==
  /\ req[r].pc = "x_expire"
  /\ \E fail \in FaultChoice :
       LET q == req[r]
       IN /\ Charge(fail)
          /\ order' = IF fail THEN order
                      ELSE updatePaymentOrder(order, "EXPIRED", [autoExpired |-> TRUE])
          /\ req' = [req EXCEPT ![r] =
                       IF fail
                       THEN Finish(q, IF q.kind = "recheck" THEN "OK_PENDING" ELSE "SWEPT")
                       ELSE [q EXCEPT !.pc = "release"]]
  /\ UNCHANGED <<now, wallet, lock, cache, credits, idem>>

\* ------------------------------------------------------------ withLock
\* The value with which an update function aborts its transaction.  The
\* store commits a transaction whenever the update function returns
\* anything else, also the record it was given.
Undefined == [token |-> 0 - 1, expiresAt |-> 0 - 1]
TransactionCommitted(newValue) == newValue # Undefined

\* lock.js 293-298: withLock is called in process p and calls acquireLock.
WithLockStart(r, p) ==
  /\ req[r].kind = "idle"
  /\ req' = [req EXCEPT ![r] =
               acquireLock([Idle EXCEPT !.kind = "withlock", !.proc = p], now)]
  /\ UNCHANGED <<now, order, wallet, lock, cache, faults, credits, idem>>

\* lock.js 300-303: `await operation()`; the operation returns or throws.
WithLockOperation(r, throws) ==
  /\ req[r].pc = "w_op"
  /\ req' = [req EXCEPT ![r] =
               [req[r] EXCEPT !.pc = "w_release",
                              !.ret = IF throws THEN "OP_ERROR" ELSE "OK"]]
  /\ UNCHANGED <<now, order, wallet, lock, cache, faults, credits, idem>>

\* lock.js 304-307 and 159-197: the finally block's releaseLock(lockKey,
\* lockToken); released records the value releaseLock returned
\* (result.committed).
WithLockRelease(r) ==
  /\ req[r].pc = "w_release"
  /\ \E fail \in FaultChoice :
       LET q == req[r]
           k == KeyOf(q)
           new == ReleaseUpdate(lock[k], r)
       IN /\ Charge(fail)
          /\ cache' = [cache EXCEPT ![q.proc][k] = ReleaseCache(cache[q.proc][k], r)]
          /\ lock' = IF fail THEN lock ELSE [lock EXCEPT ![k] = new]
          /\ req' = [req EXCEPT ![r] =
                       IF fail THEN Finish(q, "FAULT")
                       ELSE Finish([q EXCEPT !.released = TransactionCommitted(new)],
                                   q.ret)]
  /\ UNCHANGED <<now, order, wallet, credits, idem>>

\* ----------------------------------------------- POST /api/order/create
\* The `amount` of a request body: absent, a number, a text that is no
\* number, or a text that begins with a number ("2abc").
RawAmounts ==
  {[kind |-> "none", value |-> 0], [kind |-> "text", value |-> 0]}
    \cup {[kind |-> k, value |-> n] : k \in {"num", "mixed"}, n \in (0 - 1)..(MAX_AMOUNT + 1)}

\* The `userId` of a request body.
RawUsers == {"none"} \cup Users

\* JavaScript's `!amount`: undefined, null, "", 0 and NaN are falsy.
Falsy(amount) == amount.kind = "none" \/ (amount.kind = "num" /\ amount.value = 0)

\* parseFloat: the leading number of the text, NaN when there is none.
IsNaN(amount) == amount.kind \in {"none", "text"}
parseFloat(amount) == amount.value

\* ValidateCreate without the check of the amount limits.
ValidateCreateNoLimits(amount, userId) ==
  IF Falsy(amount) \/ userId = "none" THEN "VALIDATION_ERROR"
  ELSE IF IsNaN(amount) \/ parseFloat(amount) <= 0 THEN "VALIDATION_ERROR"
  ELSE "ok"

\* orders.js 20-51: the checks of the request body, in the order of the code.
ValidateCreate(amount, userId) ==
  IF Falsy(amount) \/ userId = "none" THEN "VALIDATION_ERROR"
  ELSE IF IsNaN(amount) \/ parseFloat(amount) <= 0 THEN "VALIDATION_ERROR"
  ELSE IF parseFloat(amount) < MIN_AMOUNT \/ parseFloat(amount) > MAX_AMOUNT
       THEN "AMOUNT_LIMIT_ERROR"
  ELSE "ok"

\* orders.js 18-65: the request arrives; a body that passes the checks
\* leads to getUPIDetails.
CreateStart(r, amount, userId) ==
  /\ req[r].kind = "idle"
  /\ LET q == [Idle EXCEPT !.kind = "create"]
         v == ValidateCreate(amount, userId)
     IN req' = [req EXCEPT ![r] =
                  IF v # "ok" THEN Finish(q, v)
                  ELSE [q EXCEPT !.pc = "cr_upi", !.amount = parseFloat(amount),
                                 !.userId = userId]]
  /\ UNCHANGED <<now, order, wallet, lock, cache, faults, credits, idem>>

\* orders.js 57-88: getUPIDetails has answered; orderData is built with two
\* readings of the clock (createdAt, then expiresAt), between which the
\* clock may advance, and savePaymentOrder is called.
CreateUpi(r) ==
  /\ req[r].pc = "cr_upi"
  /\ \E fail \in FaultChoice : \E gap \in 0..MaxClockGap :
       LET q == req[r]
       IN /\ Charge(fail)
          /\ IF fail
             THEN /\ gap = 0
                  /\ req' = [req EXCEPT ![r] = Finish(q, "UPI_FETCH_ERROR")]
                  /\ now' = now
             ELSE /\ now + gap <= MaxTime
                  /\ req' = [req EXCEPT ![r] =
                               [q EXCEPT !.pc = "cr_save", !.createdAt = now,
                                         !.expiresAt = now + gap + ORDER_EXPIRY]]
                  /\ now' = now + gap
  /\ UNCHANGED <<order, wallet, lock, cache, credits, idem>>

\* orders.js 86-124, firebase.js 101-112: the set of payments/<orderId>.
CreateSave(r) ==
  /\ req[r].pc = "cr_save"
  /\ \E fail \in FaultChoice :
       LET q == req[r]
       IN /\ Charge(fail)
          /\ order' = IF fail THEN order
                      ELSE [NoOrder EXCEPT !.status = "PENDING", !.amount = q.amount,
                                           !.userId = q.userId,
                                           !.createdAt = q.createdAt,
                                           !.expiresAt = q.expiresAt]
          /\ req' = [req EXCEPT ![r] =
                       Finish(q, IF fail THEN "ORDER_SAVE_ERROR" ELSE "CREATED")]
  /\ UNCHANGED <<now, wallet, lock, cache, credits, idem>>

\* ------------------------------------------------------ withIdempotency
\* idem holds what withIdempotency works on, for one idempotencyKey: the
\* record under system/idempotency/<key> (store), each process's
\* `idempotency:<key>` entry of lockCache (cache), the number of times the
\* operation was invoked (runs), whether cleanupIdempotencyKeys has marked
\* the key for deletion (sweep), and the calls (call): place, process, the
\* operation's result and the expiresAt computed for it.
IdleCall == [pc |-> "idle", proc |-> 1, result |-> 0, expiresAt |-> 0]

\* withIdempotency up to its first await (lock.js 323-332): an entry of the
\* process's cache is returned as it is.
IdemStart(c, p) ==
  /\ idem.call[c].pc = "idle"
  /\ LET cachedResult == idem.cache[p]
     IN idem' = [idem EXCEPT !.call[c] =
                   IF cachedResult # NoRecord
                   THEN [IdleCall EXCEPT !.pc = "done", !.proc = p,
                                         !.result = cachedResult.result]
                   ELSE [IdleCall EXCEPT !.pc = "i_read", !.proc = p]]
  /\ UNCHANGED <<now, order, wallet, lock, cache, req, faults, credits>>

\* lock.js 334-350: the read of the stored record; one still within its TTL
\* is cached and returned.
IdemRead(c) ==
  /\ idem.call[c].pc = "i_read"
  /\ LET data == idem.store
         p == idem.call[c].proc
     IN idem' = IF data # NoRecord /\ data.expiresAt > now
                THEN [idem EXCEPT !.cache[p] = data,
                                  !.call[c].pc = "done",
                                  !.call[c].result = data.result]
                ELSE [idem EXCEPT !.call[c].pc = "i_op"]
  /\ UNCHANGED <<now, order, wallet, lock, cache, req, faults, credits>>

\* lock.js 353-354: the operation is invoked and its result awaited; the
\* record's expiresAt is computed when it has returned.
IdemOperation(c) ==
  /\ idem.call[c].pc = "i_op"
  /\ idem' = [idem EXCEPT !.runs = @ + 1,
                          !.call[c].pc = "i_set",
                          !.call[c].result = idem.runs + 1,
                          !.call[c].expiresAt = now + IDEMPOTENCY_TTL]
  /\ UNCHANGED <<now, order, wallet, lock, cache, req, faults, credits>>

\* lock.js 356-371: the record is set in the store, then in the process's
\* cache, and the result is returned.
IdemStore(c) ==
  /\ idem.call[c].pc = "i_set"
  /\ LET q == idem.call[c]
         record == [result |-> q.result, expiresAt |-> q.expiresAt]
     IN idem' = [idem EXCEPT !.store = record,
                             !.cache[q.proc] = record,
                             !.call[c].pc = "done",
                             !.call[c].expiresAt = 0]
  /\ UNCHANGED <<now, order, wallet, lock, cache, req, faults, credits>>

\* lock.js 378-395, cleanupIdempotencyKeys: the read of all records; an
\* expired one is marked for deletion.
IdemSweepRead ==
  /\ ~idem.sweep
  /\ idem.store # NoRecord /\ idem.store.expiresAt < now
  /\ idem' = [idem EXCEPT !.sweep = TRUE]
  /\ UNCHANGED <<now, order, wallet, lock, cache, req, faults, credits>>

\* lock.js 397-400: the update that deletes the marked keys.
IdemSweepUpdate ==
  /\ idem.sweep
  /\ idem' = [idem EXCEPT !.sweep = FALSE, !.store = NoRecord]
  /\ UNCHANGED <<now, order, wallet, lock, cache, req, faults, credits>>

\* --------------------------------------------------------------- clock
Tick ==
  /\ now < MaxTime
  /\ now' = now + 1
  /\ UNCHANGED <<order, wallet, lock, cache, req, faults, credits, idem>>

\* ------------------------------------------------------ specification
\* The order as POST /api/order/create saved it (orders.js 68-84), at time 0;
\* no wallet, no lock, no request yet.
NewOrder ==
  [status |-> "PENDING", createdAt |-> 0, expiresAt |-> ORDER_EXPIRY,
   userId |-> Owner, amount |-> 1, transactionId |-> 0, transactionRef |-> 0,
   verificationError |-> FALSE, cancelledBy |-> "none", autoExpired |-> FALSE]

InitStore ==
  /\ now = 0
  /\ order = NewOrder
  /\ wallet = [u \in Users |->
                 [exists |-> FALSE, balance |-> 0, hist |-> 0, histNew |-> 0]]
  /\ lock = [k \in Keys |-> NoLock]
  /\ cache = [p \in Procs |-> [k \in Keys |-> NoLock]]
  /\ req = [r \in AllReqs |-> Idle]
  /\ credits = 0
  /\ idem = [store |-> NoRecord, cache |-> [p \in Procs |-> NoRecord],
             runs |-> 0, sweep |-> FALSE, call |-> [c \in Calls |-> IdleCall]]

Init == InitStore /\ faults = MaxFaults

\* The steps of a request that has started.
Step(r) ==
  \/ AcquireAttempt(r)
  \/ Release(r)
  \/ CatchRelease(r)
  \/ IsLockedRead(r)
  \/ IsLockedReap(r)
  \/ \E a \in Amounts : VerifyRead(r, a)
  \/ VerifyExpire(r)
  \/ \E ok \in BOOLEAN : VerifyUpi(r, ok)
  \/ VerifyMark(r)
  \/ \E u \in Users : VerifyCredit(r, u)
  \/ VerifyHistory(r)
  \/ VerifyRollback(r)
  \/ CancelRead(r)
  \/ CancelWrite(r)
  \/ GetExpire(r)
  \/ ExpireWrite(r)

\* A request arrives.
Start(r) ==
  \E p \in ProcChoice(r) :
     \/ VerifyStart(r, p)
     \/ \E u \in Users : CancelStart(r, p, u)
     \/ GetStart(r, p)
     \/ \E u \in Users : RecheckStart(r, p, u)
     \/ SweepStart(r, p)

Next ==
  \/ Tick
  \/ \E r \in Reqs : Start(r) \/ Step(r)

\* NumReqs concurrent requests of any kind on the order, in one or two
\* processes, with at most MaxFaults throwing store calls.
Spec == Init /\ [][Next]_vars

\* The same requests with a store that never throws: the steps that only
\* follow a throw (VerifyRollback, CatchRelease) are left out.
StepNoFault(r) ==
  \/ AcquireAttempt(r)
  \/ Release(r)
  \/ IsLockedRead(r)
  \/ IsLockedReap(r)
  \/ \E a \in Amounts : VerifyRead(r, a)
  \/ VerifyExpire(r)
  \/ \E ok \in BOOLEAN : VerifyUpi(r, ok)
  \/ VerifyMark(r)
  \/ \E u \in Users : VerifyCredit(r, u)
  \/ VerifyHistory(r)
  \/ CancelRead(r)
  \/ CancelWrite(r)
  \/ GetExpire(r)
  \/ ExpireWrite(r)

NextNoFault ==
  \/ Tick
  \/ \E r \in Reqs : Start(r) \/ StepNoFault(r)

InitNoFault == InitStore /\ faults = 0

SpecNoFault == InitNoFault /\ [][NextNoFault]_vars

\* Three concurrent cancel requests of the order's owner (users of the
\* `order:<id>` lock), with a store that never throws.
NextCancel3 ==
  \/ Tick
  \/ \E r \in AllReqs :
       \/ \E p \in ProcChoice(r) : CancelStart(r, p, Owner)
       \/ AcquireAttempt(r)
       \/ CancelRead(r)
       \/ CancelWrite(r)
       \/ Release(r)

SpecCancel3 == InitNoFault /\ [][NextCancel3]_vars

\* NumReqs verify requests (concurrent or one after the other) and no other
\* handler, with at most MaxVerifyFaults throwing store calls.  No request
\* takes the `order:<id>` lock, so isLocked never finds a record to reap.
NextVerify ==
  \/ Tick
  \/ \E r \in Reqs :
       \/ \E p \in ProcChoice(r) : VerifyStart(r, p)
       \/ AcquireAttempt(r)
       \/ \E a \in Amounts : VerifyRead(r, a)
       \/ VerifyExpire(r)
       \/ IsLockedRead(r)
       \/ \E ok \in BOOLEAN : VerifyUpi(r, ok)
       \/ VerifyMark(r)
       \/ \E u \in Users : VerifyCredit(r, u)
       \/ VerifyHistory(r)
       \/ VerifyRollback(r)
       \/ Release(r)
       \/ CatchRelease(r)

InitVerify == InitStore /\ faults = MaxVerifyFaults

SpecVerify == InitVerify /\ [][NextVerify]_vars

\* Request r is the only one in flight.
Alone(r) == \A r2 \in AllReqs \ {r} : req[r2].pc \in {"idle", "done"}

\* The steps of a request when requests run one after the other and no
\* store call throws (isLocked then never finds an expired record to reap).
StepSeq(r) ==
  \/ AcquireAttempt(r)
  \/ Release(r)
  \/ IsLockedRead(r)
  \/ \E a \in Amounts : VerifyRead(r, a)
  \/ VerifyExpire(r)
  \/ \E ok \in BOOLEAN : VerifyUpi(r, ok)
  \/ VerifyMark(r)
  \/ \E u \in Users : VerifyCredit(r, u)
  \/ VerifyHistory(r)
  \/ CancelRead(r)
  \/ CancelWrite(r)
  \/ GetExpire(r)
  \/ ExpireWrite(r)

\* A request arrives only when no other is in flight.
NextSeq ==
  \/ Tick
  \/ \E r \in Reqs : StepSeq(r)
  \/ \E r \in Reqs : \E p \in ProcChoice(r) :
       \/ Alone(r) /\ VerifyStart(r, p)
       \/ \E u \in Users : Alone(r) /\ CancelStart(r, p, u)
       \/ Alone(r) /\ GetStart(r, p)
       \/ \E u \in Users : Alone(r) /\ RecheckStart(r, p, u)
       \/ Alone(r) /\ SweepStart(r, p)

\* NumReqs requests of any kind, one after the other, with a store that
\* never throws.
SpecSeq == InitNoFault /\ [][NextSeq]_vars

\* A wallet as earlier orders may have left it: absent, or with a balance
\* up to the configured maximum (the history entry of this order not yet
\* written).
PriorWallets ==
  {[exists |-> FALSE, balance |-> 0, hist |-> 0, histNew |-> 0]}
    \cup {[exists |-> TRUE, balance |-> b, hist |-> 0, histNew |-> 0] :
            b \in 0..WALLET_MAX_BALANCE}

\* The state after POST /api/order/create for a user whose wallet earlier
\* orders have credited.
InitWallet ==
  /\ now = 0
  /\ order = NewOrder
  /\ wallet \in [Users -> PriorWallets]
  /\ wallet["u2"] = [exists |-> FALSE, balance |-> 0, hist |-> 0, histNew |-> 0]
  /\ lock = [k \in Keys |-> NoLock]
  /\ cache = [p \in Procs |-> [k \in Keys |-> NoLock]]
  /\ req = [r \in AllReqs |-> Idle]
  /\ credits = 0
  /\ idem = [store |-> NoRecord, cache |-> [p \in Procs |-> NoRecord],
             runs |-> 0, sweep |-> FALSE, call |-> [c \in Calls |-> IdleCall]]
  /\ faults = 0

\* Requests one after the other on the order, with a store that never
\* throws, starting from any prior balance of the owner's wallet.
SpecWallet == InitWallet /\ [][NextSeq]_vars

\* Before any order exists: one request to POST /api/order/create with any
\* body, with at most MaxFaults throwing store calls.
InitCreate ==
  /\ now = 0
  /\ order = NoOrder
  /\ wallet = [u \in Users |->
                 [exists |-> FALSE, balance |-> 0, hist |-> 0, histNew |-> 0]]
  /\ lock = [k \in Keys |-> NoLock]
  /\ cache = [p \in Procs |-> [k \in Keys |-> NoLock]]
  /\ req = [r \in AllReqs |-> Idle]
  /\ credits = 0
  /\ idem = [store |-> NoRecord, cache |-> [p \in Procs |-> NoRecord],
             runs |-> 0, sweep |-> FALSE, call |-> [c \in Calls |-> IdleCall]]
  /\ faults = MaxFaults

NextCreate ==
  \/ Tick
  \/ \E a \in RawAmounts : \E u \in RawUsers : CreateStart(1, a, u)
  \/ CreateUpi(1)
  \/ CreateSave(1)

SpecCreate == InitCreate /\ [][NextCreate]_vars

\* The state after POST /api/order/create at time 0, with the order as the
\* handler can save it: expiresAt is ORDER_EXPIRY after the second reading
\* of the clock, which is up to MaxClockGap later than createdAt.
InitLate ==
  /\ now = 0
  /\ \E gap \in 0..MaxClockGap : order = [NewOrder EXCEPT !.expiresAt = ORDER_EXPIRY + gap]
  /\ wallet = [u \in Users |->
                 [exists |-> FALSE, balance |-> 0, hist |-> 0, histNew |-> 0]]
  /\ lock = [k \in Keys |-> NoLock]
  /\ cache = [p \in Procs |-> [k \in Keys |-> NoLock]]
  /\ req = [r \in AllReqs |-> Idle]
  /\ credits = 0
  /\ idem = [store |-> NoRecord, cache |-> [p \in Procs |-> NoRecord],
             runs |-> 0, sweep |-> FALSE, call |-> [c \in Calls |-> IdleCall]]
  /\ faults = 0

\* Requests one after the other on such an order, with a store that never
\* throws.
SpecLate == InitLate /\ [][NextSeq]_vars

\* NumReqs concurrent calls of withLock on one key, in one or two
\* processes, with a store that never throws.
NextWithLock ==
  \/ Tick
  \/ \E r \in Reqs :
       \/ \E p \in ProcChoice(r) : WithLockStart(r, p)
       \/ AcquireAttempt(r)
       \/ \E throws \in BOOLEAN : WithLockOperation(r, throws)
       \/ WithLockRelease(r)

SpecWithLock == InitNoFault /\ [][NextWithLock]_vars

\* The steps of a call of withIdempotency and of the two cleanups.
IdemStep ==
  \/ \E c \in Calls : IdemRead(c) \/ IdemOperation(c) \/ IdemStore(c)
  \/ \E p \in Procs : cleanupExpiredLocks(p)
  \/ IdemSweepRead
  \/ IdemSweepUpdate

\* NumCalls calls of withIdempotency with one key, overlapping or not, in
\* one or two processes, with the cache cleanup timer and the sweep of the
\* stored records running at any time.
NextIdem ==
  \/ Tick
  \/ IdemStep
  \/ \E c \in Calls : \E p \in ProcChoice(c) : IdemStart(c, p)

SpecIdem == InitNoFault /\ [][NextIdem]_vars

\* Call c is the only call in flight.
AloneCall(c) == \A c2 \in Calls \ {c} : idem.call[c2].pc \in {"idle", "done"}

\* The same calls made one after the other.
NextIdemSeq ==
  \/ Tick
  \/ IdemStep
  \/ \E c \in Calls : \E p \in ProcChoice(c) : AloneCall(c) /\ IdemStart(c, p)

SpecIdemSeq == InitNoFault /\ [][NextIdemSeq]_vars

\* The requests of SpecNoFault with the scheduling the program relies on:
\* the clock advances, and the store answers every transaction of
\* acquireLock once its backoff timer has fired.
SpecFair ==
  /\ InitNoFault /\ [][NextNoFault]_vars
  /\ WF_vars(Tick)
  /\ \A r \in Reqs : WF_vars(AcquireAttempt(r))

\* ------------------------------------------------------------- claims
AllDone == \A r \in AllReqs : req[r].pc \in {"idle", "done"}

\* C1: for the order, across any interleaving of verifyPayment calls on it
\* (concurrent, retried, or made after a failed credit and rollback), the
\* wallet balance is increased for its orderId at most once.
C1_CreditedAtMostOnce == credits <= 1

\* C2: the stored status only moves from PENDING to SUCCESS, CANCELLED or
\* EXPIRED: no write changes the status of an order that is already
\* SUCCESS, CANCELLED or EXPIRED.
C2_TerminalStatusIsFinal ==
  [][order.status \in Terminal => order'.status = order.status]_vars

\* C3: the wallet credit commits before the status is written to SUCCESS,
\* so an order with status SUCCESS has a committed wallet credit.
C3_SuccessHasCredit == order.status = "SUCCESS" => credits >= 1

\* C4: when every operation has completed, each wallet's balance equals the
\* sum of the amounts of its history entries (here: of the one entry the
\* order can have), also after a credit whose history write failed.
C4_BalanceIsHistorySum ==
  AllDone => \A u \in Users : wallet[u].balance = wallet[u].hist

\* The requests that hold a live token of key k: acquireLock returned it,
\* its holder has not released it and it has not expired.
LiveHolders(k) ==
  {r \in AllReqs : /\ req[r].got /\ ~req[r].released /\ KeyOf(req[r]) = k
                   /\ ~StoreExpired([token |-> r, expiresAt |-> req[r].lockExp], now)}

\* C5: for any lockKey, at most one acquirer holds a live (non-expired,
\* non-released) token at any instant.
C5_OneLiveTokenPerKey == \A k \in Keys : Cardinality(LiveHolders(k)) <= 1

\* A request that has read the order's status and whose next store call
\* writes the status.
AboutToWrite(q) == q.pc \in {"v_mark", "v_expire", "c_write", "g_expire", "x_expire"}

\* C6: operations on the order are serialized by one per-order lock: no two
\* of them are at the same time between their read of the order status and
\* their status write.
C6_Serialized ==
  \A r1, r2 \in AllReqs :
     r1 # r2 => ~(AboutToWrite(req[r1]) /\ AboutToWrite(req[r2]))

\* C7: a release never clears a lock record owned by a different, still-live
\* token: a live record is cleared only by a release of the request that
\* installed it.
C7_ReleaseSparesLiveLock ==
  [][\A k \in Keys :
       (lock[k] # NoLock /\ ~StoreExpired(lock[k], now) /\ lock'[k] = NoLock)
       => /\ req[lock[k].token].pc \in {"release", "catch_release"}
          /\ req'[lock[k].token].pc # req[lock[k].token].pc]_vars

\* C8: if the wallet credit fails during verifyPayment, the request returns
\* the credit-failed error, and (no other request having run) the order is
\* left PENDING with the error annotation, never SUCCESS without a
\* committed credit.
C8_CreditFailureRollsBack ==
  \A r \in AllReqs :
     (req[r].pc = "done" /\ req[r].creditFailed)
     => /\ req[r].result = "WALLET_CREDIT_ERROR"
        /\ (\A r2 \in AllReqs \ {r} : req[r2].kind = "idle")
             => (order.status = "PENDING" /\ order.verificationError)

\* C9: every operation that acquired a lock has released it by the time it
\* returns: the store no longer holds its token.
C9_ReleasedOnReturn ==
  \A r \in AllReqs :
     (req[r].pc = "done" /\ req[r].got) => lock[KeyOf(req[r])].token # r

\* C10: of two concurrent verifyPayment calls on the same PENDING, unexpired
\* order with valid matching data, exactly one returns SUCCESS (so never both).
C10_OneVerifySucceeds ==
  Cardinality({r \in AllReqs : req[r].kind = "verify" /\ req[r].result = "SUCCESS"}) <= 1

\* C11: a verification evaluated at any time now >= expiresAt (now =
\* expiresAt included) is answered Expired: the step of verify that reads the
\* PENDING order at such a time goes to the expiry write, never on towards
\* the SUCCESS write and the credit.
C11_NoVerifyFromExpiresAt ==
  [][\A r \in AllReqs :
       (/\ req[r].pc = "v_read" /\ req'[r].pc # "v_read" /\ faults' = faults
        /\ order.status = "PENDING" /\ now >= order.expiresAt)
       => req'[r].pc = "v_expire"]_vars

\* C12: an expiry attempt (order read, recheck or sweep) that did not get
\* the order's lock writes nothing: its next step leaves the order record
\* as it is.
C12_SkippedExpiryWritesNothing ==
  [][\A r \in AllReqs :
       (/\ req[r].pc \in {"g_expire", "x_expire"} /\ ~req[r].got
        /\ req'[r].pc # req[r].pc)
       => order' = order]_vars

\* C13: cancelOrder writes CANCELLED (with cancelledBy) only when the
\* caller is the order's user, the stored status is PENDING and the order has
\* not expired (now < expiresAt); a call by another user is answered
\* Unauthorized, leaves the order as it is and goes on to release the lock.
C13_CancelGuarded ==
  [][\A r \in AllReqs :
       /\ (req[r].pc = "c_write" /\ req'[r].pc = "release")
          => (/\ req[r].userId = order.userId
              /\ order.status = "PENDING"
              /\ now < order.expiresAt
              /\ order'.cancelledBy = req[r].userId)
       /\ (/\ req[r].pc = "c_read" /\ req'[r].pc # "c_read" /\ faults' = faults
           /\ req[r].userId # order.userId)
          => (req'[r].pc = "release" /\ req'[r].ret = "UNAUTHORIZED" /\ order' = order)]_vars

\* The invalid-state answers of verify and cancel.
InvalidStateRet == {"ORDER_INVALID_STATUS", "ORDER_NOT_CANCELLABLE"}

MismatchRet == {"AMOUNT_MISMATCH", "UPI_MISMATCH"}

\* C15: a verifyPayment whose amount differs from the order's amount does
\* not get past the amount comparison, and one whose destination identifier
\* differs from the configured one does not get past the destination
\* comparison; the request answered AmountMismatch or DestinationMismatch
\* changes neither the order record nor any wallet in any of its steps,
\* returns that answer and has released the verification lock: no record is
\* stored under its key and the lock manager of its process no longer
\* counts the key as held.
C15_MismatchRejected ==
  [][\A r \in AllReqs :
       /\ (req[r].pc # "v_upi" /\ req'[r].pc = "v_upi")
          => req'[r].amount = order.amount
       /\ (req[r].pc = "v_upi" /\ req'[r].pc = "v_mark")
          => req'[r].upiOk
       /\ (req'[r].ret \in MismatchRet /\ req'[r] # req[r])
          => (order' = order /\ wallet' = wallet)
       /\ (req[r].ret \in MismatchRet /\ req'[r] # req[r])
          => (/\ order' = order /\ wallet' = wallet
              /\ (faults' = faults
                  => (/\ req'[r].pc = "done" /\ req'[r].result = req[r].ret
                      /\ lock'["verify"] = NoLock
                      /\ ~CacheHeld(cache'[req[r].proc]["verify"], now))))]_vars

\* C16: with no concurrent operation (requests run one after the other), a
\* verifyPayment on the PENDING, unexpired order is refused only for a
\* mismatch of amount or destination: with matching data it returns SUCCESS,
\* its credit adds exactly the order amount to the wallet of the user it
\* names, and when it returns the order is SUCCESS and the wallet's history
\* holds the entry of the order.
C16_HappyPath ==
  [][\A r \in AllReqs :
       /\ (/\ req'[r].kind = "verify" /\ req[r].pc # "done" /\ req'[r].pc = "done"
           /\ order.status = "PENDING" /\ now < order.expiresAt)
          => req'[r].result \in MismatchRet
       /\ (req[r].pc = "v_credit" /\ req'[r].pc # "v_credit")
          => wallet'[req'[r].userId].balance =
               wallet[req'[r].userId].balance + order.amount
       /\ (/\ req[r].kind = "verify" /\ req[r].pc # "done" /\ req'[r].pc = "done"
           /\ req'[r].result = "SUCCESS")
          => (order.status = "SUCCESS" /\ wallet[req[r].userId].hist = order.amount)]_vars

IdemLive == idem.store # NoRecord /\ idem.store.expiresAt > now

\* C18: with calls made one after the other, a call that runs while the
\* record stored by an earlier call is within its TTL does not invoke the
\* operation and returns the stored result, the result the earlier call
\* returned.
C18_SecondCallReturnsStored ==
  [][\A c \in Calls :
       (idem'.call[c] # idem.call[c] /\ IdemLive)
       => (/\ idem'.runs = idem.runs
           /\ (idem'.call[c].pc = "done"
               => idem'.call[c].result = idem.store.result))]_vars

\* C19: at most one execution per key within the TTL window: the operation
\* is not invoked while another call has invoked it and not yet stored its
\* result, nor while a stored record is within its TTL.
C19_AtMostOnceWhileOverlapping ==
  [][idem'.runs > idem.runs
     => (~IdemLive /\ \A c \in Calls : idem.call[c].pc # "i_set")]_vars

\* C20: a call made after the stored record's expiresAt has passed, in the
\* process that stored it or in another, goes to the store, invokes the
\* operation again and returns the new result.
C20_RerunAfterExpiry ==
  [][\A c \in Calls :
       /\ (/\ idem.call[c].pc = "idle" /\ idem'.call[c].pc # "idle"
           /\ idem.store # NoRecord /\ idem.store.expiresAt < now)
          => idem'.call[c].pc = "i_read"
       /\ (/\ idem.call[c].pc = "i_read" /\ idem'.call[c].pc # "i_read"
           /\ idem.store # NoRecord /\ idem.store.expiresAt < now)
          => idem'.call[c].pc = "i_op"
       /\ (idem.call[c].pc = "i_op" /\ idem'.call[c].pc # "i_op")
          => (idem'.runs = idem.runs + 1 /\ idem'.call[c].result = idem'.runs)]_vars

\* The store holds a live lock record for key k: a record acquireLock's
\* transaction would leave in place.
StoreHeld(k) == lock[k] # NoLock /\ ~(lock[k].expiresAt < now)

\* C21: the in-process lock cache never changes an outcome: a request that
\* acquireLock refuses on arrival (verify, cancel), or that isLocked reports
\* as locked on arrival (the order read), finds a live lock record for that
\* key in the store.
C21_CacheAgreesWithStore ==
  [][\A r \in Reqs :
       (/\ req[r].pc = "idle" /\ req'[r].pc = "done"
        /\ req'[r].result \in {"VERIFICATION_IN_PROGRESS", "ORDER_BEING_PROCESSED",
                               "ORDER_LOCKED"})
       => StoreHeld(KeyOf(req'[r]))]_vars

\* C22: acquireLock always terminates.  Every pass of its loop is one store
\* transaction, numbered at most MAX_LOCK_ATTEMPTS; after it the call either
\* returns or waits attempt * LOCK_RETRY_DELAY before the next pass; and a
\* call in the loop eventually returns (or is waiting for a timer set
\* beyond the end of the modelled time).
C22_AcquireTerminates ==
  /\ [][\A r \in Reqs :
          (req[r].pc = "acq" /\ req'[r] # req[r])
          => /\ req[r].attempt \in 1..MAX_LOCK_ATTEMPTS
             /\ \/ req'[r].pc # "acq"
                \/ /\ req[r].attempt < MAX_LOCK_ATTEMPTS
                   /\ req'[r].attempt = req[r].attempt + 1
                   /\ req'[r].wakeAt = now + req[r].attempt * LOCK_RETRY_DELAY]_vars
  /\ \A r \in Reqs :
       (req[r].pc = "acq") ~> (req[r].pc # "acq" \/ req[r].wakeAt > MaxTime)

\* C22 witness: a call is about to make its last transaction on a key that
\* another request holds with a live record.
C22_Witness ==
  \E r \in Reqs :
     /\ req[r].pc = "acq" /\ req[r].attempt = MAX_LOCK_ATTEMPTS
     /\ now >= req[r].wakeAt
     /\ StoreHeld(KeyOf(req[r])) /\ lock[KeyOf(req[r])].token # r

\* The timeout with which key k is locked.
KeyTimeout(k) ==
  IF k = "verify" THEN PAYMENT_VERIFICATION_TIMEOUT ELSE ORDER_LOCK_TIMEOUT

\* C23: a lock whose holder has not released it is taken over once its
\* timeout has elapsed.  A transaction of acquireLock that finds a record
\* past its expiresAt gets the token; a verify or cancel that arrives in a
\* process whose cache entry for the key is absent or has reached its
\* expiresAt is not refused on the cache but goes to the store; and no
\* stored record and no cache entry has an expiresAt later than the key's
\* timeout from now, so that none of them refuses beyond that time.
C23_ExpiredLockIsTaken ==
  [][/\ \A r \in Reqs :
          /\ (/\ req[r].pc = "acq" /\ req'[r] # req[r]
              /\ lock[KeyOf(req[r])] # NoLock
              /\ lock[KeyOf(req[r])].expiresAt < now)
             => (req'[r].got /\ lock'[KeyOf(req[r])].token = r)
          /\ (/\ req[r].pc = "idle" /\ req'[r].kind \in {"verify", "cancel"}
              /\ ~CacheHeld(cache[req'[r].proc][KeyOf(req'[r])], now))
             => req'[r].pc = "acq"
     /\ \A k \in Keys :
          /\ lock'[k] # NoLock => lock'[k].expiresAt <= now' + KeyTimeout(k)
          /\ \A p \in Procs :
               cache'[p][k] # NoLock
               => cache'[p][k].expiresAt <= now' + KeyTimeout(k)]_vars

\* C23 witness: request h took the lock and has neither released it nor
\* returned; its timeout has elapsed and request r now holds the key.
C23_Witness ==
  \E r \in Reqs : \E h \in Reqs \ {r} :
     /\ KeyOf(req[r]) = KeyOf(req[h])
     /\ req[h].got /\ ~req[h].released /\ req[h].pc \notin {"idle", "done"}
     /\ req[h].lockExp < now
     /\ req[r].got /\ lock[KeyOf(req[r])].token = r

\* C24: no sequence of credits brings a wallet's balance above
\* WALLET_MAX_BALANCE.
C24_BalanceWithinMax == \A u \in Users : wallet[u].balance <= WALLET_MAX_BALANCE

\* C25: every created order has expiresAt = createdAt + ORDER_EXPIRY.
C25_ExpiresAtFixedAtCreation ==
  order.status # "NONE" => order.expiresAt = order.createdAt + ORDER_EXPIRY

\* A body the order creation must reject: no amount, no userId, an amount
\* that is not positive or lies outside [MIN_AMOUNT, MAX_AMOUNT].
InvalidBody(amount, userId) ==
  \/ amount.kind = "none"
  \/ userId = "none"
  \/ amount.kind \in {"num", "mixed"}
       /\ (amount.value <= 0 \/ amount.value < MIN_AMOUNT \/ amount.value > MAX_AMOUNT)

CreateErrors == {"VALIDATION_ERROR", "AMOUNT_LIMIT_ERROR"}

\* C26: order creation answers a body with a missing amount or userId, a
\* non-positive amount or an amount outside [MIN_AMOUNT, MAX_AMOUNT] with a
\* validation error; only a body that passed the checks goes on to the
\* store; a request answered with an error has persisted no order; and
\* every persisted order is PENDING with an amount within the limits.
C26_CreateValidated ==
  /\ \A a \in RawAmounts : \A u \in RawUsers :
       InvalidBody(a, u) => ValidateCreate(a, u) \in CreateErrors
  /\ \A r \in Reqs :
       /\ req[r].pc \in {"cr_upi", "cr_save"}
          => (req[r].amount \in MIN_AMOUNT..MAX_AMOUNT /\ req[r].userId \in Users)
       /\ (req[r].kind = "create" /\ req[r].pc = "done" /\ req[r].result # "CREATED")
          => order = NoOrder
  /\ order # NoOrder
     => /\ order.status = "PENDING"
        /\ order.amount \in MIN_AMOUNT..MAX_AMOUNT
        /\ order.userId \in Users

\* C26 witness: a request with an amount outside the limits has been
\* answered with the limit error and no order exists.
C26_Witness ==
  /\ req[1].kind = "create" /\ req[1].pc = "done"
  /\ req[1].result = "AMOUNT_LIMIT_ERROR"
  /\ order = NoOrder

\* C27: concurrent credits to one wallet lose no update: the balances
\* add up to the amounts of all the credits committed so far (the wallets
\* start absent, balance 0).
C27_NoLostCredit ==
  wallet["u1"].balance + wallet["u2"].balance = credits * order.amount

\* C27 witness: two requests are inside updateWalletBalance at the same
\* time for the same user, both transactions have committed, and the
\* wallet holds both amounts.
C27_Witness ==
  /\ req[1].pc = "v_hist" /\ req[2].pc = "v_hist"
  /\ req[1].userId = req[2].userId
  /\ credits = 2
  /\ wallet[req[1].userId].balance = 2 * order.amount

\* C28: wallet history is append-only: once the history entry of the
\* order has been written in a wallet, no step changes or removes it.
C28_HistoryAppendOnly ==
  [][\A u \in Users :
       wallet[u].hist # 0
       => (wallet'[u].hist = wallet[u].hist /\ wallet'[u].histNew = wallet[u].histNew)]_vars

\* C29: the order's status is written to EXPIRED only when now >= its
\* expiresAt, on every expiry path.
C29_ExpiredOnlyAfterExpiresAt ==
  [][(order'.status = "EXPIRED" /\ order.status # "EXPIRED")
     => now >= order.expiresAt]_vars

\* What verify, cancel and recheck answer when acquireLock throws, and when
\* it returns false.
ThrownRet(kind) == IF kind = "recheck" THEN "OK_PENDING" ELSE "SERVER_ERROR"
RefusedRet(kind) ==
  IF kind = "verify" THEN "VERIFICATION_IN_PROGRESS"
  ELSE IF kind = "cancel" THEN "ORDER_BEING_PROCESSED"
  ELSE "ORDER_EXPIRED"

\* C30: acquireLock raises a fault only when the store raised on the last
\* pass of the attempt budget; a store failure on an earlier pass is
\* followed by a retry, and a last pass that the store answered without
\* handing over the key (contention) yields the refusal, never a fault.
C30_FaultOnlyFromStore ==
  [][\A r \in Reqs :
       (/\ req[r].pc = "acq" /\ req'[r] # req[r]
        /\ req[r].kind \in {"verify", "cancel", "recheck"})
       => LET raised == faults' < faults
              last == req[r].attempt = MAX_LOCK_ATTEMPTS
              thrown == req'[r].pc = "done" /\ req'[r].result = ThrownRet(req[r].kind)
          IN /\ thrown => (raised /\ last)
             /\ (raised /\ ~last) => req'[r].pc = "acq"
             /\ (~raised /\ last /\ ~req'[r].got)
                => (req'[r].pc = "done" /\ req'[r].result = RefusedRet(req[r].kind))]_vars

\* C30 witness: a verify was answered with the server error without ever
\* holding the lock: acquireLock threw on its last pass, after two passes
\* that found the key held.
C30_Witness ==
  \E r \in Reqs :
     /\ req[r].kind = "verify" /\ req[r].pc = "done"
     /\ req[r].result = "SERVER_ERROR" /\ ~req[r].got
     /\ \E h \in Reqs \ {r} : req[h].kind = "verify" /\ req[h].got

\* C31: one pass of acquireLock is one atomic step on the stored record: on
\* an absent or expired record it installs the caller's token with
\* expiresAt = now + timeoutMs, now being the time of the installation; on a
\* live record it leaves the record as it is and the caller does not get
\* the lock.
C31_AttemptInstallsFreshRecord ==
  [][\A r \in Reqs :
       (req[r].pc = "acq" /\ req'[r] # req[r] /\ faults' = faults)
       => LET k == KeyOf(req[r])
          IN IF lock[k] = NoLock \/ lock[k].expiresAt < now
             THEN /\ req'[r].got
                  /\ lock'[k] = [token |-> r, expiresAt |-> now + TimeoutOf(req[r])]
             ELSE lock'[k] = lock[k] /\ ~req'[r].got]_vars

\* C32: releaseLock(key, token) returns true only if the store holds no
\* record for the key after the call; when the stored record carries
\* another token it leaves the record in place and returns false.
C32_ReleaseReportsOutcome ==
  [][\A r \in Reqs :
       (req[r].pc = "w_release" /\ req'[r] # req[r] /\ faults' = faults)
       => LET k == KeyOf(req[r])
          IN /\ req'[r].released => lock'[k] = NoLock
             /\ (lock[k] # NoLock /\ lock[k].token # r)
                => (lock'[k] = lock[k] /\ ~req'[r].released)]_vars

\* C33: whenever no operation on the order is in progress, a wallet holds a
\* credit for the order only if the order's stored status is SUCCESS; an
\* order that is CANCELLED or EXPIRED has not been credited.
C33_CreditOnlyIfSuccess ==
  AllDone => ((credits >= 1 \/ \E u \in Users : wallet[u].balance > 0)
              => order.status = "SUCCESS")

\* C34: the wallet that a verification credits is the wallet of the userId
\* stored on the order: a verify call whose userId differs from the order's
\* credits no wallet.
C34_CreditsOrderUser ==
  [][\A r \in AllReqs : \A u \in Users :
       (req[r].pc = "v_credit" /\ req'[r].pc = "v_hist" /\ wallet'[u] # wallet[u])
       => u = order.userId]_vars

\* C35: verify and the order read answer ORDER_CANCELLED or ORDER_LOCKED
\* only when the order's stored status is CANCELLED or EXPIRED: a PENDING
\* order is not reported cancelled because a lock on it is held or cached.
C35_CancelledOnlyIfCancelled ==
  [][\A r \in AllReqs :
       (\/ (req'[r].ret = "ORDER_CANCELLED" /\ req[r].ret # "ORDER_CANCELLED")
        \/ (req'[r].result = "ORDER_LOCKED" /\ req[r].result # "ORDER_LOCKED"))
       => order.status \in {"CANCELLED", "EXPIRED"}]_vars

\* C36: withLock runs the operation only after it has acquired the lock (the
\* step that goes on to the operation has installed the call's own token),
\* throws without running the operation when acquisition is refused, and,
\* whether the operation returns or throws, goes on to a release with its
\* own token: the call's record and cache entry are gone after it, the
\* record of another token is left as it is, and the operation's outcome is
\* what the call answers.
C36_WithLockBrackets ==
  [][\A r \in Reqs :
       LET q == req[r]
           k == KeyOf(req'[r])
       IN (req'[r].kind = "withlock" /\ req'[r] # q)
          => /\ req'[r].pc = "w_op"
                => (q.pc = "acq" /\ req'[r].got /\ lock'[k].token = r)
             /\ (q.pc \in {"idle", "acq"} /\ req'[r].pc = "done")
                => (~req'[r].got /\ req'[r].result = "LOCK_ERROR" /\ lock' = lock)
             /\ q.pc = "w_op"
                => (req'[r].pc = "w_release" /\ req'[r].ret \in {"OK", "OP_ERROR"})
             /\ req'[r].pc = "w_release" => q.pc = "w_op"
             /\ q.pc = "w_release"
                => /\ req'[r].pc = "done" /\ req'[r].result = q.ret
                   /\ lock'[k] = NoLock \/ lock'[k].token # r
                   /\ (lock[k] # NoLock /\ lock[k].token # r) => lock'[k] = lock[k]
                   /\ cache'[q.proc][k] = NoLock \/ cache'[q.proc][k].token # r]_vars

\* C36 witness: one call of withLock has been refused the lock and has
\* thrown; another, which held it, has released it after its operation threw.
C36_Witness ==
  /\ \E r \in Reqs : req[r].kind = "withlock" /\ req[r].result = "LOCK_ERROR"
  /\ \E r \in Reqs : /\ req[r].kind = "withlock" /\ req[r].result = "OP_ERROR"
                     /\ req[r].got /\ lock[KeyOf(req[r])] = NoLock

\* C37: the write by which verify rolls the order back to PENDING after a
\* failed credit leaves the order's transactionId and transactionRef as
\* they are; with no other verify on the order, they are the ones this
\* attempt wrote when it marked the order SUCCESS.
C37_RollbackKeepsReference ==
  [][\A r \in AllReqs :
       (req[r].pc = "v_rollback" /\ req'[r].pc = "release")
       => /\ order'.status = "PENDING" /\ order'.verificationError
          /\ order'.transactionId = order.transactionId
          /\ order'.transactionRef = order.transactionRef
          /\ order'.transactionId # 0 /\ order'.transactionRef # 0
          /\ (\A r2 \in AllReqs \ {r} : req[r2].kind # "verify")
             => /\ order'.transactionId = r
                /\ order'.transactionRef \in {OrElse(x, r) : x \in TransactionRefs(r)}]_vars

\* C37 witness: a verify whose credit failed has rolled the order back and
\* answered; the order is PENDING with the error annotation and carries the
\* attempt's transactionId and a transactionRef of its own.
C37_Witness ==
  \E r \in AllReqs :
     /\ req[r].pc = "done" /\ req[r].creditFailed
     /\ req[r].result = "WALLET_CREDIT_ERROR"
     /\ order.status = "PENDING" /\ order.verificationError
     /\ order.transactionId = r /\ order.transactionRef = r + Cardinality(AllReqs)

====
